---- MODULE Spec2Model ----
(***************************************************************************)
(* backup-tools-go: the scheduled incremental backup of src/main.go        *)
(* (doBackup, saveManifest, openManifest, the cron callback of main) and   *)
(* of src/backup/func.go (the snapshot builder, the archiver).             *)
(*                                                                         *)
(* src/main.go holds two versions of the program one after the other; the  *)
(* model is of the second (lines 68-234), the one that keeps a manifest.   *)
(*                                                                         *)
(* Types.  main.go:208 and main.go:221 give the snapshot the type          *)
(* []*backup.DirectoryEntry, so the top-level entries are shared by        *)
(* pointer: the range loops of doBackup and the archive goroutines write   *)
(* into the entries saveManifest later serializes.  The only declaration   *)
(* of the entry type in the sources is func.go:116-122, where Children is  *)
(* a slice of VALUES ([]directoryEntry): a range loop over Children gets   *)
(* a copy of every child.  ModTime is compared with != and assigned the    *)
(* text of an instant with one-second resolution (main.go:128); the model  *)
(* keeps it as the number of that second.                                  *)
(*                                                                         *)
(* Loop variables are per iteration (Dockerfile:3 builds with Go 1.24), so *)
(* the goroutine of main.go:170 reads the ft of the iteration that         *)
(* spawned it.                                                             *)
(***************************************************************************)
EXTENDS Naturals, Sequences, FiniteSets, TLC

(* ------------------------------ bounds -------------------------------- *)
\* instants run from 0 to MaxTime (seconds)
MaxTime == 1
\* triggers of the cron callback in one behaviour
MaxRuns == 2

\* the directories that may exist under sourcePath, in os.ReadDir's order
TopPool == <<"a", "b">>
\* the relative paths that may exist below one of them, in WalkDir's order
ChildPool == <<"x", "y">>
TopNames == {TopPool[k] : k \in 1..Len(TopPool)}
\* the runs of Spec see trees with one descendant path, the diff of SpecDiff
\* trees with both
ChildNames == {ChildPool[1]}
DiffChildNames == {ChildPool[k] : k \in 1..Len(ChildPool)}
Times == 0..MaxTime

(* --------------------------- the file system --------------------------- *)
\* One directory under sourcePath: its modification time and its descendant
\* directories (relative path -> modification time).
DirShapes(childNames) ==
  [mod : Times, sub : UNION {[C -> Times] : C \in SUBSET childNames}]

\* The trees under sourcePath: top-level name -> directory.
FileSystems(topNames, childNames) ==
  UNION {[D -> DirShapes(childNames)] : D \in SUBSET topNames}

VARIABLES
  fs,               \* the tree under sourcePath ("/data")
  manifest,         \* backupOutputPath/manifest.json: [exists, data]
  zips,             \* backupOutputPath/<name>.zip, per top-level name
  now,              \* the wall clock, in seconds
  pc,               \* where the cron callback / doBackup stands
  fileSystemTree,   \* doBackup's fileSystemTree
  oldManifest,      \* doBackup's oldManifest
  i,                \* index of the range loop in progress (stamp or diff)
  processedBackup,  \* doBackup's processedBackup
  wg,               \* the WaitGroup's counter
  tasks,            \* the goroutines spawned by this run, in spawn order
  ret,              \* what doBackup returns
  runs,             \* triggers so far
  started,          \* history: the clock when this run was triggered
  firstRun,         \* history: this run took the os.ErrNotExist branch
  zipCalls,         \* history: calls of ZipDirectory in this run
  saves,            \* history: manifest files written in this run
  priorFile,        \* history: the manifest file when this run was triggered
  priorZips,        \* history: the archives when this run was triggered
  prevRun,          \* history: the branch the previous run took
  scanErrors,       \* the errors the file system gives the scan of this run
  zipWalk,          \* one call of ZipDirectory followed entry by entry
  other             \* a second call of the cron callback, running meanwhile

vars == <<fs, manifest, zips, now, pc, fileSystemTree, oldManifest, i,
          processedBackup, wg, tasks, ret, runs, started, firstRun,
          zipCalls, saves, priorFile, priorZips, prevRun, scanErrors,
          zipWalk, other>>

(* ------------------------------ entries -------------------------------- *)
directoryEntry(name, modTime, children) ==
  [Name |-> name, Type |-> "directory", ModTime |-> modTime,
   Children |-> children, ZipPath |-> ""]

RECURSIVE descendantsFrom(_, _)
descendantsFrom(sub, k) ==
  IF k > Len(ChildPool) THEN <<>>
  ELSE (IF ChildPool[k] \in DOMAIN sub
          THEN <<directoryEntry(ChildPool[k], sub[ChildPool[k]], <<>>)>>
          ELSE <<>>) \o descendantsFrom(sub, k + 1)

\* WalkDir visits in lexical order; every directory below targetPath becomes
\* one flat entry named by its path relative to targetPath.
collectAllDescendantDirectoriesFlat(sub) == descendantsFrom(sub, 1)

RECURSIVE parentsFrom(_, _)
parentsFrom(tree, k) ==
  IF k > Len(TopPool) THEN <<>>
  ELSE (IF TopPool[k] \in DOMAIN tree
          THEN <<directoryEntry(TopPool[k], tree[TopPool[k]].mod,
                   collectAllDescendantDirectoriesFlat(tree[TopPool[k]].sub))>>
          ELSE <<>>) \o parentsFrom(tree, k + 1)

\* os.ReadDir returns the entries sorted by name; one entry per directory.
BuildHybridOneLevelNestedJSON(tree) == parentsFrom(tree, 1)

(* --------------------------- manifest.json ----------------------------- *)
\* encoding/json with the tags of func.go:117-121: children and zip_path are
\* omitempty, so an entry without them has no such key.
RECURSIVE MarshalEntry(_)
MarshalEntry(e) ==
  [name |-> e.Name, type |-> e.Type, mod_time |-> e.ModTime]
    @@ (IF Len(e.Children) > 0
          THEN [children |-> [k \in 1..Len(e.Children) |-> MarshalEntry(e.Children[k])]]
          ELSE <<>>)
    @@ (IF e.ZipPath # "" THEN [zip_path |-> e.ZipPath] ELSE <<>>)

Marshal(tree) == [k \in 1..Len(tree) |-> MarshalEntry(tree[k])]

RECURSIVE UnmarshalEntry(_)
UnmarshalEntry(j) ==
  [Name |-> j.name, Type |-> j.type, ModTime |-> j.mod_time,
   Children |-> IF "children" \in DOMAIN j
                  THEN [k \in 1..Len(j.children) |-> UnmarshalEntry(j.children[k])]
                  ELSE <<>>,
   ZipPath |-> IF "zip_path" \in DOMAIN j THEN j.zip_path ELSE ""]

Unmarshal(data) == [k \in 1..Len(data) |-> UnmarshalEntry(data[k])]

NoFile == [exists |-> FALSE, data |-> <<>>]
File(data) == [exists |-> TRUE, data |-> data]

(* ------------------------------ the diff ------------------------------- *)
\* main.go:151-163
isChildDifferent(ft, of) ==
  IF Len(ft.Children) = 0 THEN TRUE
  ELSE \E a \in 1..Len(ft.Children), b \in 1..Len(of.Children) :
         /\ ft.Children[a].Name = of.Children[b].Name
         /\ ft.Children[a].ModTime # of.Children[b].ModTime

\* faulty variant: the comparison of the top-level modTimes left out
NeedsBackupAnyModTime(ft, of) ==
  ft.Name = of.Name /\ isChildDifferent(ft, of)

\* main.go:149 and main.go:165: the pair (ft, of) spawns an archive goroutine
NeedsBackup(ft, of) ==
  ft.Name = of.Name /\ of.ModTime # ft.ModTime /\ isChildDifferent(ft, of)

destZipPath(name) == name \o ".zip"

\* faulty variant: one ft shared by all iterations (the loops of Go before
\* 1.22), read by the goroutines when the outer loop has reached its last entry
RECURSIVE spawnFromSharedLoopVar(_, _, _, _)
spawnFromSharedLoopVar(tree, old, k, j) ==
  IF j > Len(old) THEN <<>>
  ELSE (IF NeedsBackup(tree[k], old[j])
          THEN <<[entry |-> Len(tree), st |-> "spawned"]>>
          ELSE <<>>) \o spawnFromSharedLoopVar(tree, old, k, j + 1)

\* main.go:148-189: the goroutines the inner loop spawns for entry k, one per
\* entry of the old manifest that passes the two tests
RECURSIVE spawnFrom(_, _, _, _)
spawnFrom(tree, old, k, j) ==
  IF j > Len(old) THEN <<>>
  ELSE (IF NeedsBackup(tree[k], old[j])
          THEN <<[entry |-> k, st |-> "spawned"]>>
          ELSE <<>>) \o spawnFrom(tree, old, k, j + 1)

Running(t) == t.st \in {"spawned", "zipping"}

(* ------------------------------- Init ---------------------------------- *)
\* the scan meets no error, no call of ZipDirectory is being followed and no
\* second call of the callback is under way
NoScanErrors == [root |-> FALSE, info |-> {}, walk |-> {}]
NoWalk == [source |-> <<>>, todo |-> <<>>, entries |-> <<>>, st |-> "none"]
NoOther ==
  [pc |-> "none", fileSystemTree |-> <<>>, oldManifest |-> <<>>,
   tasks |-> <<>>]
NoAux == scanErrors = NoScanErrors /\ zipWalk = NoWalk /\ other = NoOther

\* The manifest a previous run left: none, or the serialized snapshot of an
\* earlier state of the tree.
PriorFiles(topNames, childNames) ==
  {NoFile} \cup
  {File(Marshal(BuildHybridOneLevelNestedJSON(t))) :
     t \in FileSystems(topNames, childNames)}

Idle ==
  /\ pc = "idle"
  /\ fileSystemTree = <<>>
  /\ oldManifest = <<>>
  /\ i = 0
  /\ processedBackup = 0
  /\ wg = 0
  /\ tasks = <<>>
  /\ ret = "none"
  /\ runs = 0
  /\ started = 0
  /\ firstRun = FALSE
  /\ zipCalls = 0
  /\ saves = 0
  /\ priorFile = NoFile
  /\ priorZips = zips
  /\ prevRun = "none"
  /\ NoAux

Init ==
  /\ fs \in FileSystems(TopNames, ChildNames)
  /\ manifest \in PriorFiles(TopNames, ChildNames)
  /\ zips \in {[n \in TopNames |-> "absent"], [n \in TopNames |-> "complete"]}
  /\ now = 0
  /\ Idle

(* ------------------------- the cron callback --------------------------- *)
\* The runs of this specification follow one another: a trigger is taken when
\* the previous call of doBackup has returned.
\* main.go:98-99: the scheduler calls the function; it reads the clock
Trigger ==
  /\ pc = "idle"
  /\ runs < MaxRuns
  /\ pc' = "scan"
  /\ runs' = runs + 1
  /\ started' = now
  /\ priorFile' = manifest
  /\ priorZips' = zips
  /\ fileSystemTree' = <<>>
  /\ oldManifest' = <<>>
  /\ i' = 0
  /\ processedBackup' = 0
  /\ wg' = 0
  /\ tasks' = <<>>
  /\ ret' = "none"
  /\ firstRun' = FALSE
  /\ zipCalls' = 0
  /\ saves' = 0
  /\ prevRun' = IF runs = 0 THEN "none"
                ELSE IF firstRun THEN "bootstrap" ELSE "diff"
  /\ UNCHANGED <<fs, manifest, zips, now, scanErrors, zipWalk, other>>

\* the wall clock advances; doBackup reads it in the stamping loop only
\* (main.go:128, 130), so only there is its advance a step of the model
Tick ==
  /\ pc = "stamp"
  /\ now < MaxTime
  /\ now' = now + 1
  /\ UNCHANGED <<fs, manifest, zips, pc, fileSystemTree, oldManifest, i,
                 processedBackup, wg, tasks, ret, runs, started, firstRun,
                 zipCalls, saves, priorFile,
                 priorZips, prevRun, scanErrors, zipWalk, other>>

(* ------------------------------ doBackup ------------------------------- *)
\* main.go:118, func.go:179-214: the scan succeeds
ScanOk ==
  /\ pc = "scan"
  /\ fileSystemTree' = BuildHybridOneLevelNestedJSON(fs)
  /\ pc' = "open"
  /\ UNCHANGED <<fs, manifest, zips, now, oldManifest, i, processedBackup,
                 wg, tasks, ret, runs, started, firstRun, zipCalls, saves,
                 priorFile,
                 priorZips, prevRun, scanErrors, zipWalk, other>>

\* main.go:119-122, func.go:180-182: the root cannot be read
ScanFail ==
  /\ pc = "scan"
  /\ ret' = "scanError"
  /\ pc' = "return"
  /\ UNCHANGED <<fs, manifest, zips, now, fileSystemTree, oldManifest, i,
                 processedBackup, wg, tasks, runs, started, firstRun,
                 zipCalls, saves, priorFile,
                 priorZips, prevRun, scanErrors, zipWalk, other>>

\* main.go:124, 221-233: the manifest is there and decodes
OpenOk ==
  /\ pc = "open"
  /\ manifest.exists
  /\ oldManifest' = Unmarshal(manifest.data)
  /\ pc' = "diff"
  /\ i' = 1
  /\ UNCHANGED <<fs, manifest, zips, now, fileSystemTree, processedBackup,
                 wg, tasks, ret, runs, started, firstRun, zipCalls, saves,
                 priorFile,
                 priorZips, prevRun, scanErrors, zipWalk, other>>

\* main.go:125-126: os.Open reports that the file does not exist
OpenNotExist ==
  /\ pc = "open"
  /\ ~manifest.exists
  /\ firstRun' = TRUE
  /\ pc' = "stamp"
  /\ i' = 1
  /\ UNCHANGED <<fs, manifest, zips, now, fileSystemTree, oldManifest,
                 processedBackup, wg, tasks, ret, runs, started, zipCalls,
                 saves, priorFile,
                 priorZips, prevRun, scanErrors, zipWalk, other>>

\* faulty variant: the manifest is opened for writing, the decoder then fails
\* on the emptied file
OpenFailTruncating ==
  /\ pc = "open"
  /\ manifest' = File(<<>>)
  /\ ret' = "openError"
  /\ pc' = "return"
  /\ UNCHANGED <<fs, zips, now, fileSystemTree, oldManifest, i,
                 processedBackup, wg, tasks, runs, started, firstRun,
                 zipCalls, saves, priorFile, priorZips, prevRun, scanErrors,
                 zipWalk, other>>

\* main.go:140: any other error of os.Open or of the decoder
OpenFail ==
  /\ pc = "open"
  /\ ret' = "openError"
  /\ pc' = "return"
  /\ UNCHANGED <<fs, manifest, zips, now, fileSystemTree, oldManifest, i,
                 processedBackup, wg, tasks, runs, started, firstRun,
                 zipCalls, saves, priorFile,
                 priorZips, prevRun, scanErrors, zipWalk, other>>

\* faulty variant: the children are stamped through pointers
stampChildrenInPlace(children, t) ==
  [c \in 1..Len(children) |-> [children[c] EXCEPT !.ModTime = t]]

\* main.go:127-132, one iteration: fst is the pointer to entry k, so the
\* assignment lands in the snapshot; c is a copy of the child (func.go:120),
\* so the assignment to c.ModTime is lost with the copy.
stampChildren(children, t) == children

stampEntry(e, t) ==
  [e EXCEPT !.ModTime = t, !.Children = stampChildren(e.Children, t)]

StampStep ==
  /\ pc = "stamp"
  /\ i <= Len(fileSystemTree)
  /\ fileSystemTree' =
       [fileSystemTree EXCEPT ![i] = stampEntry(fileSystemTree[i], now)]
  /\ i' = i + 1
  /\ UNCHANGED <<fs, manifest, zips, now, pc, oldManifest, processedBackup,
                 wg, tasks, ret, runs, started, firstRun, zipCalls, saves,
                 priorFile,
                 priorZips, prevRun, scanErrors, zipWalk, other>>

\* faulty variant: the manifest that was loaded is written back
saveManifestKeepingOld(tree) == File(Marshal(oldManifest))

\* main.go:208-218 with os.Create succeeding: the file holds the snapshot
\* (the results of MarshalIndent and of Write are not looked at by the code;
\* the model takes both to succeed)
saveManifest(tree) == File(Marshal(tree))

\* faulty variant: the return of main.go:137 left out, the first run goes on
\* into the diff
afterFirstManifestFallsThrough == "diff"

\* main.go:137: the first run returns right after writing the manifest
afterFirstManifest == "return"

\* faulty variant: a failed archive becomes the error of the run, as in the
\* first version of doBackup (main.go:55-59)
doBackupResultWithZipError(ts) ==
  IF \E t \in 1..Len(ts) : ts[t].st = "failed" THEN "zipError" ELSE "nil"

\* main.go:203-205: the result of a run that wrote its manifest does not
\* depend on what the goroutines did
doBackupResult(ts) == "nil"

\* main.go:133-137
StampSaveOk ==
  /\ pc = "stamp"
  /\ i > Len(fileSystemTree)
  /\ manifest' = saveManifest(fileSystemTree)
  /\ saves' = saves + 1
  /\ ret' = "nil"
  /\ pc' = afterFirstManifest
  /\ UNCHANGED <<fs, zips, now, fileSystemTree, oldManifest, i,
                 processedBackup, wg, tasks, runs, started, firstRun,
                 zipCalls, priorFile, priorZips,
                 prevRun, scanErrors, zipWalk, other>>

\* main.go:133-135, 210-213: os.Create fails, nothing is written
StampSaveFail ==
  /\ pc = "stamp"
  /\ i > Len(fileSystemTree)
  /\ ret' = "saveError"
  /\ pc' = "return"
  /\ UNCHANGED <<fs, manifest, zips, now, fileSystemTree, oldManifest, i,
                 processedBackup, wg, tasks, runs, started, firstRun,
                 zipCalls, saves, priorFile,
                 priorZips, prevRun, scanErrors, zipWalk, other>>

\* faulty variant: the counter raised by more than the goroutines will lower
wgAddTwice(n, k) == n + 2 * k

\* main.go:168: wg.Add(1) before each go statement
wgAdd(n, k) == n + k

\* main.go:147-190, one iteration of the outer loop
DiffStep ==
  /\ pc = "diff"
  /\ i <= Len(fileSystemTree)
  /\ LET new == spawnFrom(fileSystemTree, oldManifest, i, 1) IN
       /\ tasks' = tasks \o new
       /\ processedBackup' = processedBackup + Len(new)
       /\ wg' = wgAdd(wg, Len(new))
  /\ i' = i + 1
  /\ UNCHANGED <<fs, manifest, zips, now, pc, fileSystemTree, oldManifest,
                 ret, runs, started, firstRun, zipCalls, saves, priorFile,
                 priorZips, prevRun, scanErrors, zipWalk, other>>

\* faulty variant: no wg.Wait() before the manifest is saved
WaitSkipped == TRUE

\* main.go:191: wg.Wait() returns once the counter is zero
WaitReturns == wg = 0

Wait ==
  /\ pc = "diff"
  /\ i > Len(fileSystemTree)
  /\ WaitReturns
  /\ pc' = "save"
  /\ UNCHANGED <<fs, manifest, zips, now, fileSystemTree, oldManifest, i,
                 processedBackup, wg, tasks, ret, runs, started, firstRun,
                 zipCalls, saves, priorFile,
                 priorZips, prevRun, scanErrors, zipWalk, other>>

\* main.go:199-205
SaveOk ==
  /\ pc = "save"
  /\ manifest' = saveManifest(fileSystemTree)
  /\ saves' = saves + 1
  /\ ret' = doBackupResult(tasks)
  /\ pc' = "return"
  /\ UNCHANGED <<fs, zips, now, fileSystemTree, oldManifest, i,
                 processedBackup, wg, tasks, runs, started, firstRun,
                 zipCalls, priorFile,
                 priorZips, prevRun, scanErrors, zipWalk, other>>

\* main.go:199-201, 210-213
SaveFail ==
  /\ pc = "save"
  /\ ret' = "saveError"
  /\ pc' = "return"
  /\ UNCHANGED <<fs, manifest, zips, now, fileSystemTree, oldManifest, i,
                 processedBackup, wg, tasks, runs, started, firstRun,
                 zipCalls, saves, priorFile,
                 priorZips, prevRun, scanErrors, zipWalk, other>>

\* main.go:100-103: nil lets the scheduler go on; an error ends the process
\* (log.Fatalf)
Return ==
  /\ pc = "return"
  /\ pc' = IF ret = "nil" THEN "idle" ELSE "exited"
  /\ UNCHANGED <<fs, manifest, zips, now, fileSystemTree, oldManifest, i,
                 processedBackup, wg, tasks, ret, runs, started, firstRun,
                 zipCalls, saves, priorFile,
                 priorZips, prevRun, scanErrors, zipWalk, other>>

(* ------------------------ the archive goroutines ----------------------- *)
EntryName(t) == fileSystemTree[t.entry].Name

\* faulty variant: parent is a copy of the entry, the write is lost with it
recordZipPathInCopy(tree, k, path) == tree

\* main.go:172, 185: parent is the pointer ft, the write lands in the entry of
\* the snapshot
recordZipPath(tree, k, path) == [tree EXCEPT ![k].ZipPath = path]

\* main.go:172-178, func.go:31-35: os.Create truncates the archive
ZipCreate(t) ==
  /\ t \in 1..Len(tasks)
  /\ tasks[t].st = "spawned"
  /\ zipCalls' = zipCalls + 1
  /\ zips' = [zips EXCEPT ![EntryName(tasks[t])] = "partial"]
  /\ tasks' = [tasks EXCEPT ![t].st = "zipping"]
  /\ UNCHANGED <<fs, manifest, now, pc, fileSystemTree, oldManifest, i,
                 processedBackup, wg, ret, runs, started, firstRun, saves,
                 priorFile,
                 priorZips, prevRun, scanErrors, zipWalk, other>>

\* func.go:31-34, main.go:179-182, 171: the archive cannot be created; the
\* goroutine logs and ends
ZipCreateFail(t) ==
  /\ t \in 1..Len(tasks)
  /\ tasks[t].st = "spawned"
  /\ zipCalls' = zipCalls + 1
  /\ tasks' = [tasks EXCEPT ![t].st = "failed"]
  /\ wg' = wg - 1
  /\ UNCHANGED <<fs, manifest, zips, now, pc, fileSystemTree, oldManifest, i,
                 processedBackup, ret, runs, started, firstRun, saves,
                 priorFile,
                 priorZips, prevRun, scanErrors, zipWalk, other>>

\* func.go:50-112, main.go:184-185, 171: the walk ends without error, the
\* goroutine records the path in its entry and ends
ZipOk(t) ==
  /\ t \in 1..Len(tasks)
  /\ tasks[t].st = "zipping"
  /\ zips' = [zips EXCEPT ![EntryName(tasks[t])] = "complete"]
  /\ fileSystemTree' =
       recordZipPath(fileSystemTree, tasks[t].entry,
                     destZipPath(EntryName(tasks[t])))
  /\ tasks' = [tasks EXCEPT ![t].st = "ok"]
  /\ wg' = wg - 1
  /\ UNCHANGED <<fs, manifest, now, pc, oldManifest, i, processedBackup, ret,
                 runs, started, firstRun, zipCalls, saves, priorFile,
                 priorZips, prevRun, scanErrors, zipWalk, other>>

\* func.go:108-110, main.go:179-182, 171: the walk fails (a file or the
\* source vanished); what was written stays on disk
ZipFail(t) ==
  /\ t \in 1..Len(tasks)
  /\ tasks[t].st = "zipping"
  /\ tasks' = [tasks EXCEPT ![t].st = "failed"]
  /\ wg' = wg - 1
  /\ UNCHANGED <<fs, manifest, zips, now, pc, fileSystemTree, oldManifest, i,
                 processedBackup, ret, runs, started, firstRun, zipCalls,
                 saves, priorFile,
                 priorZips, prevRun, scanErrors, zipWalk, other>>

\* faulty variant: a goroutine whose archive failed starts over
TaskStepWithRetry(t) ==
  \/ ZipCreate(t) \/ ZipCreateFail(t) \/ ZipOk(t) \/ ZipFail(t)
  \/ /\ t \in 1..Len(tasks)
     /\ tasks[t].st = "failed"
     /\ pc = "diff"
     /\ tasks' = [tasks EXCEPT ![t].st = "spawned"]
     /\ wg' = wg + 1
     /\ UNCHANGED <<fs, manifest, zips, now, pc, fileSystemTree, oldManifest,
                    i, processedBackup, ret, runs, started, firstRun,
                    zipCalls, saves, priorFile, priorZips, prevRun,
                    scanErrors, zipWalk, other>>

\* goroutine t, the t-th one the run spawned
TaskStep(t) == ZipCreate(t) \/ ZipCreateFail(t) \/ ZipOk(t) \/ ZipFail(t)

Task == \E t \in 1..Len(tasks) : TaskStep(t)

Next ==
  \/ Trigger
  \/ Tick
  \/ ScanOk
  \/ ScanFail
  \/ OpenOk
  \/ OpenNotExist
  \/ OpenFail
  \/ StampStep
  \/ StampSaveOk
  \/ StampSaveFail
  \/ DiffStep
  \/ Wait
  \/ SaveOk
  \/ SaveFail
  \/ Return
  \/ Task

Spec == Init /\ [][Next]_vars

\* doBackup's own steps
doBackupStep ==
  \/ ScanOk \/ ScanFail \/ OpenOk \/ OpenNotExist \/ OpenFail
  \/ StampStep \/ StampSaveOk \/ StampSaveFail
  \/ DiffStep \/ Wait \/ SaveOk \/ SaveFail \/ Return

\* the state the first trigger leaves (see Trigger)
JustTriggered ==
  /\ pc = "scan"
  /\ fileSystemTree = <<>>
  /\ oldManifest = <<>>
  /\ i = 0
  /\ processedBackup = 0
  /\ wg = 0
  /\ tasks = <<>>
  /\ ret = "none"
  /\ runs = 1
  /\ started = now
  /\ firstRun = FALSE
  /\ zipCalls = 0
  /\ saves = 0
  /\ priorFile = manifest
  /\ priorZips = zips
  /\ prevRun = "none"
  /\ NoAux

(* ------------------------ one run, with fairness ----------------------- *)
\* One triggered run, from every tree of directories without subdirectories
\* and every manifest file of such a tree, to the return of doBackup (the
\* diff then flags a directory exactly when its modTime differs, so runs with
\* no, one and two goroutines all occur).  The Go scheduler runs every
\* runnable goroutine, so doBackup's own steps and the steps of each archive
\* goroutine are taken when they stay enabled; nothing is assumed of the
\* clock.
InitRun ==
  /\ fs \in FileSystems(TopNames, {})
  /\ manifest \in PriorFiles(TopNames, {})
  /\ zips = [n \in TopNames |-> "absent"]
  /\ now = 0
  /\ JustTriggered

NextRun == doBackupStep \/ Task \/ Tick

FairRun ==
  /\ InitRun
  /\ [][NextRun]_vars
  /\ WF_vars(doBackupStep)
  /\ \A t \in 1..Len(TopPool) : WF_vars(TaskStep(t))

(* ----------------- the diff step alone, on richer trees ----------------- *)
\* A run that has just been triggered, over every pair of a tree and a prior
\* manifest with up to two descendant paths per directory; it is followed
\* through the scan, the load and the diff loop.
InitDiff ==
  /\ fs \in FileSystems(TopNames, DiffChildNames)
  /\ manifest \in PriorFiles(TopNames, DiffChildNames) \ {NoFile}
  /\ zips = [n \in TopNames |-> "absent"]
  /\ now = 0
  /\ JustTriggered

NextDiff == ScanOk \/ OpenOk \/ DiffStep

SpecDiff == InitDiff /\ [][NextDiff]_vars

(* ------------------- ZipDirectory, followed entry by entry -------------- *)
\* levels of directories below the archived directory
MaxDepth == 1
\* the names an entry may have, in the lexical order WalkDir visits them
ZipPool == <<"d", "f">>
ZipNames == {ZipPool[k] : k \in 1..Len(ZipPool)}

\* What is under the archived directory: name -> regular file or directory
\* with its own contents.
RECURSIVE Nodes(_), Contents(_)
Nodes(depth) ==
  {[dir |-> FALSE, ls |-> <<>>]} \cup
  (IF depth = 0 THEN {}
   ELSE {[dir |-> TRUE, ls |-> c] : c \in Contents(depth - 1)})

Contents(depth) == UNION {[S -> Nodes(depth)] : S \in SUBSET ZipNames}

\* main.go:176: the sourcePath handed to ZipDirectory, as path components
zipSourcePath == <<"data", "a">>

\* filepath.Rel(base, path) for a path at or below base
Rel(base, path) ==
  IF path = base THEN <<".">> ELSE SubSeq(path, Len(base) + 1, Len(path))

\* the text of a relative path: its components joined by the separator
RECURSIVE PathString(_)
PathString(p) ==
  IF Len(p) = 1 THEN p[1] ELSE p[1] \o "/" \o PathString(Tail(p))

\* filepath.WalkDir below directory dir with contents ls, from the k-th name:
\* every entry before what is below it, names in lexical order
RECURSIVE walkFrom(_, _, _)
walkFrom(ls, dir, k) ==
  IF k > Len(ZipPool) THEN <<>>
  ELSE LET n == ZipPool[k]
           path == Append(dir, n)
       IN (IF n \in DOMAIN ls
             THEN <<[path |-> path, IsDir |-> ls[n].dir]>> \o
                  (IF ls[n].dir THEN walkFrom(ls[n].ls, path, 1) ELSE <<>>)
             ELSE <<>>) \o walkFrom(ls, dir, k + 1)

\* func.go:50: the calls WalkDir makes, the root first
WalkDir(root, ls) == <<[path |-> root, IsDir |-> TRUE]>> \o walkFrom(ls, root, 1)

\* faulty variant: the root is given an entry too
rootNeverSkipped(relPath) == FALSE

\* func.go:63-65: the walk function returns at once for the root itself
isRoot(relPath) == relPath = <<".">>

\* func.go:79-85: the header of the entry
zipHeader(relPath, isDir) ==
  IF isDir
    THEN [Name |-> PathString(relPath) \o "/", Method |-> "Store"]
    ELSE [Name |-> PathString(relPath), Method |-> "Deflate"]

Walking == zipWalk.st = "walking" /\ zipWalk.todo # <<>>

UnchangedByZipDirectory ==
  UNCHANGED <<fs, manifest, zips, now, pc, fileSystemTree, oldManifest, i,
              processedBackup, wg, tasks, ret, runs, started, firstRun,
              zipCalls, saves, priorFile, priorZips, prevRun, scanErrors,
              other>>

\* func.go:58-65: the walk function called for sourcePath
WalkRoot ==
  /\ Walking
  /\ isRoot(Rel(zipSourcePath, Head(zipWalk.todo).path))
  /\ zipWalk' = [zipWalk EXCEPT !.todo = Tail(@)]
  /\ UnchangedByZipDirectory

\* func.go:58-105, for a directory or a file below sourcePath: one header is
\* written (zipWriter.CreateHeader), the contents of a file are copied
WalkEntry ==
  /\ Walking
  /\ LET d == Head(zipWalk.todo)
         relPath == Rel(zipSourcePath, d.path)
     IN /\ ~isRoot(relPath)
        /\ zipWalk' = [zipWalk EXCEPT
                         !.todo = Tail(@),
                         !.entries = Append(@, zipHeader(relPath, d.IsDir))]
  /\ UnchangedByZipDirectory

\* func.go:51-53, 59-61, 75-77, 88-90: the walk function returns an error
\* before it has written the header; WalkDir stops, ZipDirectory returns the
\* error (func.go:108-110)
WalkEntryFail ==
  /\ Walking
  /\ zipWalk' = [zipWalk EXCEPT !.st = "failed"]
  /\ UnchangedByZipDirectory

\* func.go:93-102: the header of a file is written, then the file cannot be
\* opened or copied
WalkCopyFail ==
  /\ Walking
  /\ LET d == Head(zipWalk.todo)
         relPath == Rel(zipSourcePath, d.path)
     IN /\ ~isRoot(relPath)
        /\ ~d.IsDir
        /\ zipWalk' = [zipWalk EXCEPT
                         !.entries = Append(@, zipHeader(relPath, FALSE)),
                         !.st = "failed"]
  /\ UnchangedByZipDirectory

\* func.go:108-112: WalkDir has visited everything, ZipDirectory returns nil
WalkEnd ==
  /\ zipWalk.st = "walking"
  /\ zipWalk.todo = <<>>
  /\ zipWalk' = [zipWalk EXCEPT !.st = "ok"]
  /\ UnchangedByZipDirectory

\* every variable of doBackup at rest
Parked ==
  /\ fs = <<>>
  /\ manifest = NoFile
  /\ zips = [n \in TopNames |-> "absent"]
  /\ now = 0
  /\ pc = "idle"
  /\ fileSystemTree = <<>>
  /\ oldManifest = <<>>
  /\ i = 0
  /\ processedBackup = 0
  /\ wg = 0
  /\ tasks = <<>>
  /\ ret = "none"
  /\ runs = 0
  /\ started = 0
  /\ firstRun = FALSE
  /\ zipCalls = 0
  /\ saves = 0
  /\ priorFile = NoFile
  /\ priorZips = zips
  /\ prevRun = "none"

\* ZipDirectory has created the archive (func.go:31-48) and starts the walk of
\* a source directory with any contents
InitZip ==
  /\ Parked
  /\ scanErrors = NoScanErrors
  /\ other = NoOther
  /\ zipWalk \in {[source |-> ls, todo |-> WalkDir(zipSourcePath, ls),
                   entries |-> <<>>, st |-> "walking"] :
                    ls \in Contents(MaxDepth)}

NextZip == WalkRoot \/ WalkEntry \/ WalkEntryFail \/ WalkCopyFail \/ WalkEnd

SpecZip == InitZip /\ [][NextZip]_vars

(* ------------------- the scan, with the errors it absorbs --------------- *)
\* The errors the file system may give one scan: os.ReadDir fails on the root,
\* entry.Info fails for some top-level directories, the walk below some
\* top-level directories fails.
ScanErrors ==
  [root : BOOLEAN, info : SUBSET TopNames, walk : SUBSET TopNames]

\* faulty variant: a directory whose descendant walk failed is left out
RECURSIVE scanFromDroppingOnWalkError(_, _, _)
scanFromDroppingOnWalkError(tree, errs, k) ==
  IF k > Len(TopPool) THEN <<>>
  ELSE LET n == TopPool[k] IN
    (IF n \in DOMAIN tree /\ n \notin errs.info /\ n \notin errs.walk
       THEN <<directoryEntry(n, tree[n].mod,
                collectAllDescendantDirectoriesFlat(tree[n].sub))>>
       ELSE <<>>) \o scanFromDroppingOnWalkError(tree, errs, k + 1)

\* func.go:184-212: the loop over the entries of the root, from the k-th name.
\* entry.Info failing skips the directory (func.go:189-192); the walk failing
\* leaves Children unset (func.go:202-204, 166-168).
RECURSIVE scanFrom(_, _, _)
scanFrom(tree, errs, k) ==
  IF k > Len(TopPool) THEN <<>>
  ELSE LET n == TopPool[k] IN
    (IF n \in DOMAIN tree /\ n \notin errs.info
       THEN <<directoryEntry(n, tree[n].mod,
                IF n \in errs.walk THEN <<>>
                ELSE collectAllDescendantDirectoriesFlat(tree[n].sub))>>
       ELSE <<>>) \o scanFrom(tree, errs, k + 1)

\* main.go:118, func.go:179-214: os.ReadDir succeeds, the scan returns what it
\* could collect
ScanDegraded ==
  /\ pc = "scan"
  /\ ~scanErrors.root
  /\ fileSystemTree' = scanFrom(fs, scanErrors, 1)
  /\ pc' = "open"
  /\ UNCHANGED <<fs, manifest, zips, now, oldManifest, i, processedBackup,
                 wg, tasks, ret, runs, started, firstRun, zipCalls, saves,
                 priorFile, priorZips, prevRun, scanErrors, zipWalk, other>>

\* main.go:119-122, func.go:179-182: os.ReadDir fails on the root
ScanRootFail ==
  /\ pc = "scan"
  /\ scanErrors.root
  /\ ret' = "scanError"
  /\ pc' = "return"
  /\ UNCHANGED <<fs, manifest, zips, now, fileSystemTree, oldManifest, i,
                 processedBackup, wg, tasks, runs, started, firstRun,
                 zipCalls, saves, priorFile, priorZips, prevRun, scanErrors,
                 zipWalk, other>>

\* a run has just been triggered, over any tree and any errors of the scan
InitScan ==
  /\ fs \in FileSystems(TopNames, DiffChildNames)
  /\ manifest = NoFile
  /\ zips = [n \in TopNames |-> "absent"]
  /\ now = 0
  /\ pc = "scan"
  /\ fileSystemTree = <<>>
  /\ oldManifest = <<>>
  /\ i = 0
  /\ processedBackup = 0
  /\ wg = 0
  /\ tasks = <<>>
  /\ ret = "none"
  /\ runs = 1
  /\ started = now
  /\ firstRun = FALSE
  /\ zipCalls = 0
  /\ saves = 0
  /\ priorFile = manifest
  /\ priorZips = zips
  /\ prevRun = "none"
  /\ scanErrors \in ScanErrors
  /\ zipWalk = NoWalk
  /\ other = NoOther

NextScan == ScanDegraded \/ ScanRootFail

SpecScan == InitScan /\ [][NextScan]_vars

(* -------------- a trigger while the previous run is not over ------------ *)
\* The scheduler starts the callback of main.go:98 for every trigger, whether
\* or not an earlier call has returned; nothing in main or doBackup holds a
\* second call back.  `other` is that second call of doBackup, with its own
\* locals; the file system, the manifest and the archives are the same files.
ProcessAlive == pc # "exited"

UnchangedBySecond ==
  UNCHANGED <<fs, now, fileSystemTree, oldManifest, i, processedBackup, wg,
              tasks, ret, runs, started, firstRun, zipCalls, saves,
              priorFile, priorZips, prevRun, scanErrors, zipWalk>>

\* main.go:147-190, all iterations of the outer loop
RECURSIVE spawnAllFrom(_, _, _)
spawnAllFrom(tree, old, k) ==
  IF k > Len(tree) THEN <<>>
  ELSE spawnFrom(tree, old, k, 1) \o spawnAllFrom(tree, old, k + 1)

\* faulty variant: the second call does not wait for its goroutines
secondWaitSkipped(ts) == TRUE

\* main.go:191: wg.Wait() of the second call
secondWaitReturns(ts) == \A t \in 1..Len(ts) : ~Running(ts[t])

\* main.go:98-99, 113-122: a trigger while the first call is inside doBackup;
\* the second call scans
SecondTrigger ==
  /\ pc \notin {"idle", "exited"}
  /\ other.pc = "none"
  /\ other' = [other EXCEPT !.pc = "open",
                 !.fileSystemTree = BuildHybridOneLevelNestedJSON(fs)]
  /\ UNCHANGED <<manifest, zips, pc>>
  /\ UnchangedBySecond

\* main.go:124, 221-233: the second call reads the manifest
SecondOpen ==
  /\ ProcessAlive
  /\ other.pc = "open"
  /\ manifest.exists
  /\ other' = [other EXCEPT !.pc = "diff",
                 !.oldManifest = Unmarshal(manifest.data)]
  /\ UNCHANGED <<manifest, zips, pc>>
  /\ UnchangedBySecond

\* main.go:125-137: the second call finds no manifest, stamps and writes one
SecondBootstrap ==
  /\ ProcessAlive
  /\ other.pc = "open"
  /\ ~manifest.exists
  /\ LET stamped == [k \in 1..Len(other.fileSystemTree) |->
                       stampEntry(other.fileSystemTree[k], now)]
     IN /\ manifest' = saveManifest(stamped)
        /\ other' = [other EXCEPT !.pc = "done", !.fileSystemTree = stamped]
  /\ UNCHANGED <<zips, pc>>
  /\ UnchangedBySecond

\* main.go:143-190: the diff loop of the second call
SecondDiff ==
  /\ ProcessAlive
  /\ other.pc = "diff"
  /\ other' = [other EXCEPT !.pc = "wait",
                 !.tasks = spawnAllFrom(other.fileSystemTree,
                                        other.oldManifest, 1)]
  /\ UNCHANGED <<manifest, zips, pc>>
  /\ UnchangedBySecond

SecondEntryName(t) == other.fileSystemTree[other.tasks[t].entry].Name

\* main.go:172-178, func.go:31-35
SecondZipCreate(t) ==
  /\ other.tasks[t].st = "spawned"
  /\ zips' = [zips EXCEPT ![SecondEntryName(t)] = "partial"]
  /\ other' = [other EXCEPT !.tasks[t].st = "zipping"]
  /\ UNCHANGED <<manifest, pc>>
  /\ UnchangedBySecond

\* func.go:31-34, main.go:179-182
SecondZipCreateFail(t) ==
  /\ other.tasks[t].st = "spawned"
  /\ other' = [other EXCEPT !.tasks[t].st = "failed"]
  /\ UNCHANGED <<manifest, zips, pc>>
  /\ UnchangedBySecond

\* func.go:50-112, main.go:184-185
SecondZipOk(t) ==
  /\ other.tasks[t].st = "zipping"
  /\ zips' = [zips EXCEPT ![SecondEntryName(t)] = "complete"]
  /\ other' = [other EXCEPT
                 !.tasks[t].st = "ok",
                 !.fileSystemTree =
                    recordZipPath(@, other.tasks[t].entry,
                                  destZipPath(SecondEntryName(t)))]
  /\ UNCHANGED <<manifest, pc>>
  /\ UnchangedBySecond

\* func.go:108-110, main.go:179-182
SecondZipFail(t) ==
  /\ other.tasks[t].st = "zipping"
  /\ other' = [other EXCEPT !.tasks[t].st = "failed"]
  /\ UNCHANGED <<manifest, zips, pc>>
  /\ UnchangedBySecond

SecondTask ==
  /\ ProcessAlive
  /\ other.pc = "wait"
  /\ \E t \in 1..Len(other.tasks) :
       \/ SecondZipCreate(t) \/ SecondZipCreateFail(t)
       \/ SecondZipOk(t) \/ SecondZipFail(t)

\* main.go:191: the goroutines of the second call have ended
SecondWait ==
  /\ ProcessAlive
  /\ other.pc = "wait"
  /\ secondWaitReturns(other.tasks)
  /\ other' = [other EXCEPT !.pc = "save"]
  /\ UNCHANGED <<manifest, zips, pc>>
  /\ UnchangedBySecond

\* main.go:199-205: the second call writes the manifest and returns nil
SecondSave ==
  /\ ProcessAlive
  /\ other.pc = "save"
  /\ manifest' = saveManifest(other.fileSystemTree)
  /\ other' = [other EXCEPT !.pc = "done"]
  /\ UNCHANGED <<zips, pc>>
  /\ UnchangedBySecond

\* main.go:140, 199-201, 100-101: the load or the save of the second call
\* fails, doBackup returns the error and log.Fatalf ends the process
SecondFail ==
  /\ ProcessAlive
  /\ other.pc \in {"open", "save"}
  /\ other' = [other EXCEPT !.pc = "failed"]
  /\ pc' = "exited"
  /\ UNCHANGED <<manifest, zips>>
  /\ UnchangedBySecond

\* one run has just been triggered; directories without subdirectories
InitOverlap ==
  /\ fs \in FileSystems(TopNames, {})
  /\ manifest \in PriorFiles(TopNames, {})
  /\ zips = [n \in TopNames |-> "absent"]
  /\ now = 0
  /\ JustTriggered

\* the goroutines of the first call, while the process lives
LiveTask == ProcessAlive /\ Task

NextOverlap ==
  \/ ScanOk \/ ScanFail \/ OpenOk \/ OpenNotExist \/ OpenFail
  \/ StampStep \/ StampSaveOk \/ StampSaveFail \/ Tick
  \/ DiffStep \/ Wait \/ SaveOk \/ SaveFail \/ Return
  \/ LiveTask
  \/ SecondTrigger \/ SecondOpen \/ SecondBootstrap \/ SecondDiff
  \/ SecondTask \/ SecondWait \/ SecondSave \/ SecondFail

SpecOverlap == InitOverlap /\ [][NextOverlap]_vars

(* ======================= the claims, C1 to C10 ========================= *)
\* entry k of the snapshot has been flagged: a goroutine was spawned for it
Flagged(k) == \E t \in 1..Len(tasks) : tasks[t].entry = k

\* the outer loop of main.go:147 has gone through the whole snapshot
DiffDone == pc = "diff" /\ i > Len(fileSystemTree)

\* this run loaded a prior manifest (it is past openManifest, on the diff path)
DiffPath ==
  /\ ~firstRun
  /\ i > 0
  /\ pc \in {"diff", "save", "return", "idle", "exited"}

ChildSet(e) ==
  {<<e.Children[c].Name, e.Children[c].ModTime>> : c \in 1..Len(e.Children)}

ChildNamesOf(e) == {e.Children[c].Name : c \in 1..Len(e.Children)}

ChildSetDiffers(ft, of) ==
  Len(ft.Children) # Len(of.Children) \/ ChildSet(ft) # ChildSet(of)

\* C1: once the diff loop is over, an entry whose name occurs in the prior
\* manifest is flagged if and only if its modTime differs from the prior one
\* or its child set differs from the prior one.
C1_FlaggedIffChanged ==
  DiffDone =>
    \A k \in 1..Len(fileSystemTree), j \in 1..Len(oldManifest) :
      fileSystemTree[k].Name = oldManifest[j].Name =>
        (Flagged(k) <=>
           \/ fileSystemTree[k].ModTime # oldManifest[j].ModTime
           \/ ChildSetDiffers(fileSystemTree[k], oldManifest[j]))

\* C2: once the diff loop is over, an entry whose name does not occur in the
\* prior manifest is flagged and has its archive goroutine.
C2_NewDirectoryFlagged ==
  DiffDone =>
    \A k \in 1..Len(fileSystemTree) :
      (\A j \in 1..Len(oldManifest) :
         oldManifest[j].Name # fileSystemTree[k].Name) => Flagged(k)

\* exactly one child of the entry changed its name and nothing else changed
RenamedOneChild(ft, of) ==
  /\ ft.Name = of.Name
  /\ ft.ModTime = of.ModTime
  /\ \E c \in ChildSet(of), d \in ChildSet(ft) :
       /\ c[1] # d[1]
       /\ c[2] = d[2]
       /\ c[1] \notin ChildNamesOf(ft)
       /\ d[1] \notin ChildNamesOf(of)
       /\ ChildSet(ft) \ {d} = ChildSet(of) \ {c}

\* C3: once the diff loop is over, an entry one of whose children was renamed
\* with every modTime unchanged is flagged.
C3_RenameFlagged ==
  DiffDone =>
    \A k \in 1..Len(fileSystemTree), j \in 1..Len(oldManifest) :
      RenamedOneChild(fileSystemTree[k], oldManifest[j]) => Flagged(k)

\* the snapshot and the prior manifest name the same directories with the
\* same modTimes and the same children
SameSnapshot(tree, old) ==
  /\ Len(tree) = Len(old)
  /\ \A k \in 1..Len(tree) :
       /\ tree[k].Name = old[k].Name
       /\ tree[k].ModTime = old[k].ModTime
       /\ ~ChildSetDiffers(tree[k], old[k])

\* C4: in a run whose snapshot is identical to the prior manifest the diff
\* flags nothing: no goroutine is spawned, ZipDirectory is not called and the
\* processed count stays 0, in the first such run and in the one after it.
C4_NoOpDiffFlagsNothing ==
  DiffPath /\ SameSnapshot(fileSystemTree, oldManifest) =>
    tasks = <<>> /\ processedBackup = 0 /\ wg = 0 /\ zipCalls = 0

C4_Witness ==
  /\ pc = "save"
  /\ runs = 2
  /\ SameSnapshot(fileSystemTree, oldManifest)
  /\ Len(fileSystemTree) = 2
  /\ \E k \in 1..2 : Len(fileSystemTree[k].Children) > 0
  /\ \E k \in 1..2 : Len(fileSystemTree[k].Children) = 0
  /\ processedBackup = 0
  /\ manifest = priorFile

\* C5: whenever doBackup stands before the call of saveManifest that ends the
\* run, or has made it, no goroutine spawned by the run is still running.
C5_SaveAfterAllTasks ==
  (pc = "save" \/ (~firstRun /\ saves > 0)) =>
    \A t \in 1..Len(tasks) : ~Running(tasks[t])

C5_Witness ==
  /\ pc = "save"
  /\ Len(tasks) = 2
  /\ tasks[1].st = "ok"
  /\ tasks[2].st = "failed"

Terminated(t) == t.st \in {"ok", "failed"}

\* the archive of the entry a goroutine ended well on is whole, and the entry
\* carries its path
Archived(t) ==
  /\ zips[EntryName(t)] = "complete"
  /\ fileSystemTree[t.entry].ZipPath = destZipPath(EntryName(t))

\* C6, as claimed: a run on the diff path in which an archive failed has, when
\* doBackup returns, ended every goroutine, archived every entry whose
\* goroutine did not fail, and returns nil.
C6_FailuresIsolatedAlwaysNil ==
  (DiffPath /\ pc = "return"
     /\ \E t \in 1..Len(tasks) : tasks[t].st = "failed") =>
    /\ \A t \in 1..Len(tasks) : Terminated(tasks[t])
    /\ \A t \in 1..Len(tasks) : tasks[t].st = "ok" => Archived(tasks[t])
    /\ ret = "nil"

\* C6, amended: when doBackup returns from the diff path every goroutine has
\* ended, every entry whose goroutine did not fail is archived, the call of
\* saveManifest was reached, and doBackup returns nil whatever failed among
\* the archives; it returns an error only when saveManifest itself failed.
C6_FailuresIsolated ==
  (DiffPath /\ pc = "return") =>
    /\ \A t \in 1..Len(tasks) : Terminated(tasks[t])
    /\ \A t \in 1..Len(tasks) : tasks[t].st = "ok" => Archived(tasks[t])
    /\ \/ ret = "nil" /\ saves = 1
       \/ ret = "saveError" /\ saves = 0

C6_Witness ==
  /\ pc = "return"
  /\ DiffPath
  /\ ret = "nil"
  /\ Len(tasks) = 2
  /\ tasks[1].st = "failed"
  /\ tasks[2].st = "ok"
  /\ zips[EntryName(tasks[1])] = "partial"
  /\ Archived(tasks[2])
  /\ manifest = saveManifest(fileSystemTree)

\* C7: in the manifest a run has written, an entry has zip_path if and only
\* if a goroutine of this run archived that entry successfully, and the value
\* is the path the goroutine wrote.
C7_ZipPathIffArchived ==
  (saves > 0 /\ pc \in {"return", "idle", "exited"}) =>
    /\ Len(manifest.data) = Len(fileSystemTree)
    /\ \A k \in 1..Len(manifest.data) :
         /\ manifest.data[k].name = fileSystemTree[k].Name
         /\ ("zip_path" \in DOMAIN manifest.data[k]) <=>
              (\E t \in 1..Len(tasks) :
                 tasks[t].entry = k /\ tasks[t].st = "ok")
         /\ ("zip_path" \in DOMAIN manifest.data[k]) =>
              manifest.data[k].zip_path = destZipPath(manifest.data[k].name)

C7_Witness ==
  /\ pc = "return"
  /\ saves = 1
  /\ Len(tasks) = 2
  /\ tasks[1].st = "ok"
  /\ tasks[2].st = "failed"
  /\ "zip_path" \in DOMAIN manifest.data[tasks[1].entry]
  /\ "zip_path" \notin DOMAIN manifest.data[tasks[2].entry]

\* C8, as claimed: a first run, when doBackup returns, has not called
\* ZipDirectory, has touched no archive, has written the manifest exactly
\* once and returns nil.
C8_FirstRunAlwaysWritesOnce ==
  (firstRun /\ pc = "return") =>
    zipCalls = 0 /\ zips = priorZips /\ saves = 1 /\ ret = "nil"

\* C8, amended: a first run never calls ZipDirectory, spawns nothing and
\* leaves every archive as it was; when doBackup returns it has either
\* written the manifest exactly once and returns nil, or os.Create failed, it
\* has written nothing and returns the error.
C8_FirstRunNoArchive ==
  firstRun =>
    /\ zipCalls = 0
    /\ tasks = <<>>
    /\ zips = priorZips
    /\ pc \in {"stamp", "return", "idle", "exited"}
    /\ pc = "stamp" => saves = 0 /\ manifest = NoFile
    /\ pc # "stamp" =>
         \/ ret = "nil" /\ saves = 1 /\ manifest.exists
         \/ ret = "saveError" /\ saves = 0 /\ manifest = NoFile

C8_Witness ==
  /\ firstRun
  /\ pc = "return"
  /\ ret = "nil"
  /\ saves = 1
  /\ Len(fileSystemTree) = 2
  /\ zips = [n \in TopNames |-> "complete"]
  /\ manifest = saveManifest(fileSystemTree)

\* a modTime the run read from the clock
Stamp(t) == started <= t /\ t <= now

\* C9: the manifest a first run has written carries, on every top-level entry
\* and on every child entry, a time read from the clock during the run, and
\* loading it back gives the names and times of the stamped snapshot.
C9_FirstRunStampsAll ==
  (firstRun /\ pc = "return" /\ ret = "nil") =>
    LET m == Unmarshal(manifest.data) IN
      /\ m = fileSystemTree
      /\ \A k \in 1..Len(m) :
           /\ Stamp(m[k].ModTime)
           /\ \A c \in 1..Len(m[k].Children) : Stamp(m[k].Children[c].ModTime)

FailureHandled ==
  ret \in {"scanError", "openError", "saveError"} /\ pc # "return"

\* C11: once the cron callback has handled a failed run (scan error, manifest
\* load error, manifest save error) the process is still scheduling: it
\* stands where the next trigger starts a new run.
C11_FailedRunKeepsScheduling == FailureHandled => pc = "idle"

\* the paths below a directory with contents ls, relative to it, each with
\* whether it is a directory
RECURSIVE RelPaths(_)
RelPaths(ls) ==
  UNION {{<<(<<n>>), ls[n].dir>>} \cup
         (IF ls[n].dir
            THEN {<<(<<n>>) \o p[1], p[2]>> : p \in RelPaths(ls[n].ls)}
            ELSE {}) : n \in DOMAIN ls}

FilesOf(ls) == {p[1] : p \in {q \in RelPaths(ls) : ~q[2]}}
DirsOf(ls) == {p[1] : p \in {q \in RelPaths(ls) : q[2]}}

\* C12: when ZipDirectory returns nil the archive has one entry per file and
\* per directory found below the source and none for the source itself; a
\* directory's entry is named by its relative path followed by the separator
\* and is stored, a file's entry is named by its relative path and deflated.
C12_ArchiveComplete ==
  zipWalk.st = "ok" =>
    LET e == zipWalk.entries
        F == FilesOf(zipWalk.source)
        D == DirsOf(zipWalk.source)
    IN /\ Len(e) = Cardinality(F) + Cardinality(D)
       /\ {e[k] : k \in 1..Len(e)} =
            {[Name |-> PathString(p), Method |-> "Deflate"] : p \in F} \cup
            {[Name |-> PathString(p) \o "/", Method |-> "Store"] : p \in D}

C12_Witness ==
  /\ zipWalk.st = "ok"
  /\ Len(zipWalk.entries) = 4
  /\ \E k \in 1..4 : zipWalk.entries[k] = [Name |-> "d/", Method |-> "Store"]
  /\ \E k \in 1..4 : zipWalk.entries[k] = [Name |-> "d/d", Method |-> "Deflate"]
  /\ \E k \in 1..4 : zipWalk.entries[k] = [Name |-> "f/", Method |-> "Store"]
  /\ \E k \in 1..4 : zipWalk.entries[k] = [Name |-> "f/f", Method |-> "Deflate"]

\* C13: when the scan fails on the root, or the load of the manifest fails
\* otherwise than by os.ErrNotExist, doBackup returns the error at once: it
\* has spawned no goroutine, has called neither ZipDirectory nor
\* saveManifest, and the manifest and every archive are as the run found them.
C13_AbortedRunTouchesNothing ==
  ret \in {"scanError", "openError"} =>
    /\ pc \in {"return", "exited"}
    /\ tasks = <<>>
    /\ wg = 0
    /\ zipCalls = 0
    /\ saves = 0
    /\ manifest = priorFile
    /\ zips = priorZips

C13_Witness ==
  /\ ret = "openError"
  /\ pc = "return"
  /\ manifest.exists
  /\ zips = [n \in TopNames |-> "complete"]
  /\ Len(fileSystemTree) = 2
  /\ \E j \in 1..Len(manifest.data) :
       NeedsBackup(fileSystemTree[1], Unmarshal(manifest.data)[j])

\* C14: the goroutines of a run are of distinct top-level entries, each of an
\* entry the diff flagged; distinct entries have distinct names, hence
\* distinct archive files; an archive file is touched, and a ZipPath is set,
\* only by the goroutine of its own entry.
C14_TasksOwnDistinctEntries ==
  /\ \A k, l \in 1..Len(fileSystemTree) :
       k # l => fileSystemTree[k].Name # fileSystemTree[l].Name
  /\ \A t \in 1..Len(tasks) :
       /\ tasks[t].entry \in 1..Len(fileSystemTree)
       /\ \E j \in 1..Len(oldManifest) :
            NeedsBackup(fileSystemTree[tasks[t].entry], oldManifest[j])
  /\ \A t, u \in 1..Len(tasks) :
       t # u =>
         /\ tasks[t].entry # tasks[u].entry
         /\ destZipPath(EntryName(tasks[t])) # destZipPath(EntryName(tasks[u]))
  /\ \A k \in 1..Len(fileSystemTree) :
       fileSystemTree[k].ZipPath # "" =>
         \E t \in 1..Len(tasks) : tasks[t].entry = k /\ tasks[t].st = "ok"
  /\ \A n \in TopNames :
       zips[n] # priorZips[n] =>
         \E t \in 1..Len(tasks) :
           EntryName(tasks[t]) = n /\ tasks[t].st # "spawned"

C14_Witness ==
  /\ pc = "diff"
  /\ Len(tasks) = 2
  /\ tasks[1].st = "zipping"
  /\ tasks[2].st = "zipping"
  /\ tasks[1].entry = 1
  /\ tasks[2].entry = 2
  /\ zips = [n \in TopNames |-> "partial"]

\* where top-level entry k of the snapshot stands in a run on the diff path:
\* not yet reached by the outer loop, passed over by it, flagged with its
\* goroutine still at work, or flagged with its goroutine ended
EntryState(k) ==
  IF pc = "diff" /\ i <= k THEN "Scanned"
  ELSE IF \E t \in 1..Len(tasks) : tasks[t].entry = k
    THEN LET t == CHOOSE u \in 1..Len(tasks) : tasks[u].entry = k IN
           IF tasks[t].st = "ok" THEN "ArchiveSucceeded"
           ELSE IF tasks[t].st = "failed" THEN "ArchiveFailed"
           ELSE "NeedsBackup"
    ELSE "NoChangeSkipped"

EntryTransitions ==
  {<<"Scanned", "NoChangeSkipped">>, <<"Scanned", "NeedsBackup">>,
   <<"NeedsBackup", "ArchiveSucceeded">>, <<"NeedsBackup", "ArchiveFailed">>}

EntryTerminal == {"NoChangeSkipped", "ArchiveSucceeded", "ArchiveFailed"}

\* the manifest of a run on the diff path is about to be written or has been
AtPersistence == DiffPath /\ (pc = "save" \/ saves > 0)

\* C15: in a run on the diff path every entry of the snapshot changes state
\* only along Scanned -> NoChangeSkipped, Scanned -> NeedsBackup,
\* NeedsBackup -> ArchiveSucceeded and NeedsBackup -> ArchiveFailed; when the
\* manifest is persisted every entry is in a terminal state, ZipDirectory was
\* called once for every flagged entry and only a flagged entry is archived.
C15_EntryLifecycle ==
  /\ [](AtPersistence =>
          /\ \A k \in 1..Len(fileSystemTree) : EntryState(k) \in EntryTerminal
          /\ zipCalls = Len(tasks)
          /\ \A k \in 1..Len(fileSystemTree) :
               (fileSystemTree[k].ZipPath # "" \/
                  zips[fileSystemTree[k].Name] # priorZips[fileSystemTree[k].Name])
                 => EntryState(k) \in {"ArchiveSucceeded", "ArchiveFailed"})
  /\ [][(DiffPath /\ DiffPath' /\ runs' = runs) =>
          \A k \in 1..Len(fileSystemTree) :
            EntryState(k)' # EntryState(k) =>
              <<EntryState(k), EntryState(k)'>> \in EntryTransitions]_vars

C15_Witness ==
  /\ pc = "save"
  /\ Len(fileSystemTree) = 2
  /\ EntryState(1) = "NoChangeSkipped"
  /\ EntryState(2) = "ArchiveFailed"
  /\ zips[fileSystemTree[1].Name] = "complete"
  /\ zips[fileSystemTree[2].Name] = "partial"

\* the snapshot's entry of top-level directory n, if it has one
EntryOf(tree, n) == {k \in 1..Len(tree) : tree[k].Name = n}

\* C17: the scan returns an error exactly when the root cannot be read.
\* Otherwise it returns a snapshot with one entry for every top-level
\* directory whose info could be obtained and none for the others; the entry
\* of a directory whose descendant walk failed has no children, the entry of
\* any other directory has all its descendants.
C17_ScanDegradesPerEntry ==
  /\ pc = "return" => (ret = "scanError" /\ scanErrors.root)
  /\ pc = "open" =>
       /\ ~scanErrors.root
       /\ Len(fileSystemTree) = Cardinality(DOMAIN fs \ scanErrors.info)
       /\ \A n \in DOMAIN fs \cap scanErrors.info :
            EntryOf(fileSystemTree, n) = {}
       /\ \A n \in DOMAIN fs \ scanErrors.info :
            \E k \in 1..Len(fileSystemTree) :
              /\ EntryOf(fileSystemTree, n) = {k}
              /\ fileSystemTree[k].ModTime = fs[n].mod
              /\ IF n \in scanErrors.walk
                   THEN fileSystemTree[k].Children = <<>>
                   ELSE /\ Len(fileSystemTree[k].Children) =
                             Cardinality(DOMAIN fs[n].sub)
                        /\ ChildSet(fileSystemTree[k]) =
                             {<<c, fs[n].sub[c]>> : c \in DOMAIN fs[n].sub}

C17_Witness ==
  /\ pc = "open"
  /\ DOMAIN fs = TopNames
  /\ \A n \in TopNames : DOMAIN fs[n].sub = DiffChildNames
  /\ scanErrors = [root |-> FALSE, info |-> {TopPool[1]}, walk |-> {TopPool[2]}]
  /\ Len(fileSystemTree) = 1
  /\ fileSystemTree[1].Name = TopPool[2]
  /\ fileSystemTree[1].Children = <<>>

\* C18: in the run that follows a completed run on the diff path (the file
\* system is the same for both) nothing is flagged: no goroutine is spawned,
\* ZipDirectory is not called and no archive is touched, also for a directory
\* whose archive failed in the earlier run.
C18_NoRetryWhileUnchanged ==
  prevRun = "diff" =>
    /\ tasks = <<>>
    /\ processedBackup = 0
    /\ zipCalls = 0
    /\ zips = priorZips

C18_Witness ==
  /\ prevRun = "diff"
  /\ pc = "save"
  /\ Len(fileSystemTree) = 2
  /\ zips[fileSystemTree[1].Name] = "partial"
  /\ zips[fileSystemTree[2].Name] = "complete"
  /\ "zip_path" \notin DOMAIN priorFile.data[1]
  /\ "zip_path" \in DOMAIN priorFile.data[2]
  /\ tasks = <<>>

\* the outer loop of a run on the diff path is over
DiffLoopOver == DiffPath /\ (pc = "diff" => i > Len(fileSystemTree))

FirstAtManifest ==
  pc \in {"open", "save"} \/ (pc = "stamp" /\ i > Len(fileSystemTree))

SecondAtManifest == other.pc \in {"open", "save"}

FirstArchiving == \E t \in 1..Len(tasks) : Running(tasks[t])
SecondArchiving == \E t \in 1..Len(other.tasks) : Running(other.tasks[t])

\* a goroutine of each call is inside ZipDirectory on the same archive file
SameArchiveWrittenTwice ==
  \E t \in 1..Len(tasks), u \in 1..Len(other.tasks) :
    /\ tasks[t].st = "zipping"
    /\ other.tasks[u].st = "zipping"
    /\ EntryName(tasks[t]) = SecondEntryName(u)

\* C16, as claimed: under every trigger schedule, also one with a trigger
\* while the previous run is not over, no call of doBackup stands at a read or
\* write of the manifest while an archive goroutine is in progress, and no
\* archive file is being written by two goroutines.
C16_ManifestNeverTouchedWhileArchiving ==
  /\ (FirstAtManifest \/ SecondAtManifest) =>
       (~FirstArchiving /\ ~SecondArchiving)
  /\ ~SameArchiveWrittenTwice

\* C16, amended: a call of doBackup stands at a read or write of the manifest
\* only while none of the goroutines it spawned itself is in progress, and as
\* long as no second call has been triggered no goroutine at all is in
\* progress then.
C16_ManifestOutsideOwnArchivePhase ==
  /\ FirstAtManifest => ~FirstArchiving
  /\ SecondAtManifest => ~SecondArchiving
  /\ (other.pc = "none" /\ FirstAtManifest) =>
       (~FirstArchiving /\ ~SecondArchiving)

C16_Witness ==
  /\ other.pc = "save"
  /\ Len(other.tasks) = 2
  /\ ~SecondArchiving
  /\ pc = "diff"
  /\ Len(tasks) = 2
  /\ tasks[1].st = "zipping"
  /\ zips[EntryName(tasks[1])] = "partial"

====
